---------------------------- MODULE Spec2Model ----------------------------
(***************************************************************************)
(* Envelope follower plug-in: the SignalProcessor pipeline (two Filters,   *)
(* the envelope tracker, the range mapper) and the part of                 *)
(* EnvelopeFollowerAudioProcessor that drives it (prepareToPlay,           *)
(* updateMathParams, processBlock, sendCCMessage).                         *)
(*                                                                         *)
(* Numbers.  Sample values, levels, gains and output bounds are kept in    *)
(* fixed point, as integers counting 1/SCALE.  Frequencies are whole Hz,   *)
(* recovery times whole microseconds, decibels whole dB.  The filter       *)
(* coefficients theta_c, k and alpha are exact rationals [n, d]; theta_c   *)
(* is kept as a multiple of pi.  decay = pow(2, -1/num_samples) is kept    *)
(* as its exponent, the rational 1/num_samples.  NonFinite stands for a    *)
(* value that is no finite number of the model's range (inf, NaN, or a     *)
(* magnitude above MaxMag).                                                *)
(***************************************************************************)
EXTENDS Integers, Sequences, FiniteSets, TLC

\* ------------------------------------------------------------ bounds
\* Resolution of the fixed-point values: one unit is 1/SCALE.
SCALE == 16
\* Samples consumed by takeInSample in one behaviour.
MaxSamples == 3
\* Longest buffer handed to processBlock.
MaxBlock == 2
\* prepareToPlay calls in one behaviour.
MaxPrepares == 2
\* Parameter writes by the control thread in one behaviour.
MaxWrites == 1
\* Direct calls on a SignalProcessor in one behaviour of SpecSP.
MaxCalls == 4
\* Calls by the host or the GUI, other than parameter writes, in one behaviour.
MaxHostCalls == 2
\* Direct calls on a SignalProcessor in one behaviour of SpecEnv.
MaxEnvCalls == 7

\* ------------------------------------------------------------ arithmetic
NonFinite == 2^30
MaxMag == 2^17
\* Resolution and range of the filters' difference-equation coefficients.
COEF == SCALE * SCALE
MaxCoef == 2^3

IsNum(x) == x # NonFinite

Abs(x) == IF x < 0 THEN -x ELSE x

Sign(x) == IF x < 0 THEN -1 ELSE 1

MinOf(a, b) == IF b < a THEN b ELSE a

MaxOf(a, b) == IF a < b THEN b ELSE a

\* A result outside the model's range is NonFinite.
Cap(x) == IF Abs(x) > MaxMag THEN NonFinite ELSE x

\* a / b rounded to the nearest integer (b # 0), as the float unit rounds.
RoundDiv(a, b) == Sign(a) * Sign(b) * ((2 * Abs(a) + Abs(b)) \div (2 * Abs(b)))

\* a / b truncated toward zero (b # 0): the C++ conversion (int).
TruncDiv(a, b) == Sign(a) * Sign(b) * (Abs(a) \div Abs(b))

RECURSIVE Gcd(_, _)
Gcd(a, b) == IF b = 0 THEN a ELSE Gcd(b, a % b)

RECURSIVE Pow2(_)
Pow2(e) == IF e <= 0 THEN 1 ELSE 2 * Pow2(e - 1)

\* Fixed point: the product and the sum of two values.
FMul(a, b) == IF IsNum(a) /\ IsNum(b) THEN Cap(RoundDiv(a * b, SCALE)) ELSE NonFinite

FAdd(a, b) == IF IsNum(a) /\ IsNum(b) THEN Cap(a + b) ELSE NonFinite

\* x rounded to the nearest integer.
ToInt_nearest(x) == RoundDiv(x, SCALE)

\* (int) x of a finite fixed-point value: truncation toward zero.
ToInt(x) == TruncDiv(x, SCALE)

\* The fixed-point value of the integer i.
OfInt(i) == i * SCALE

\* Rationals [n, d] in lowest terms with d >= 0; d = 0 is no finite number.
Rat(n, d) ==
    IF d = 0 THEN [n |-> 0, d |-> 0]
    ELSE LET g == Gcd(Abs(n), Abs(d))
         IN  [n |-> Sign(d) * (n \div g), d |-> Abs(d) \div g]

RatFinite(r) == r.d # 0

RatAdd(x, y) ==
    IF RatFinite(x) /\ RatFinite(y) THEN Rat(x.n * y.d + y.n * x.d, x.d * y.d)
    ELSE Rat(0, 0)

RatHalf(x) == Rat(x.n, 2 * x.d)

RatNeg(x) == [n |-> -x.n, d |-> x.d]

\* x / y, cancelling across before multiplying; y = 0 gives no finite number.
RatDiv(x, y) ==
    IF ~RatFinite(x) \/ ~RatFinite(y) \/ y.n = 0 THEN Rat(0, 0)
    ELSE LET g1 == Gcd(Abs(x.n), Abs(y.n))
             g2 == Gcd(x.d, y.d)
         IN  Rat((x.n \div g1) * (y.d \div g2), (x.d \div g2) * (y.n \div g1))

\* tan(h * pi) for a rational h.  tan has period pi, so h is reduced to
\* a/d in [0, 1); there tan(pi*u) is taken as 8u(1-u) / (3(1-2u)), which is
\* exact at u = 0, 1/4, 3/4, has the pole at u = 1/2 and the sign of tan
\* everywhere.  At the pole itself the double result is a huge finite number.
Tan(h) ==
    IF ~RatFinite(h) THEN Rat(0, 0)
    ELSE LET a == h.n % h.d
             d == h.d
         IN  IF 2 * a = d THEN Rat(10^4, 1)
             ELSE Rat(8 * a * (d - a), 3 * d * (d - 2 * a))

\* ------------------------------------------------------------ Filter
\* Filter's field defaults.
FilterDefault ==
    [prev_input |-> 0, prev_output |-> 0,
     cutoff_frequency |-> 1000, sampling_frequency |-> 44100,
     theta_c |-> Rat(0, 1), k |-> Rat(0, 1), alpha |-> Rat(0, 1)]

\* Filter::calc_coeff.  theta_c is held in units of pi.
calc_coeff(f) ==
    LET theta == Rat(2 * f.cutoff_frequency, f.sampling_frequency)
        kk    == Tan(RatHalf(theta))
    IN  [f EXCEPT !.theta_c = theta, !.k = kk, !.alpha = RatAdd(Rat(1, 1), kk)]

\* Filter::set_sampling_frequency that also puts cutoff_frequency back to its
\* default.
set_sampling_frequency_default_cutoff(f, new_freq) ==
    calc_coeff([f EXCEPT !.sampling_frequency = new_freq,
                         !.cutoff_frequency = 1000])

\* Filter::set_sampling_frequency.
set_sampling_frequency(f, new_freq) ==
    calc_coeff([f EXCEPT !.sampling_frequency = new_freq])

\* Filter::set_cutoff_frequency that also clears prev_input and prev_output.
set_cutoff_frequency_reset(f, new_freq) ==
    calc_coeff([f EXCEPT !.cutoff_frequency = new_freq,
                         !.prev_input = 0, !.prev_output = 0])

\* Filter::set_cutoff_frequency.
set_cutoff_frequency(f, new_freq) ==
    calc_coeff([f EXCEPT !.cutoff_frequency = new_freq])

\* A coefficient of the difference equation, a double, in units of 1/COEF.
\* A magnitude above MaxCoef is outside the model's range.
CoefOf(r) ==
    IF ~RatFinite(r) THEN NonFinite
    ELSE LET s  == (r.d \div 2^16) + 1
             n1 == RoundDiv(r.n, s)
             d1 == RoundDiv(r.d, s)
         IN  IF Abs(n1) > MaxCoef * d1 THEN NonFinite
             ELSE RoundDiv(n1 * COEF, d1)

\* (1/a0) * (b0*new_sample + b1*prev_input - a1*prev_output), a0 = 1.
\* A non-finite coefficient or operand gives no finite number.
FilterOutput(f, new_sample, b0, b1, a1) ==
    IF \/ ~IsNum(b0) \/ ~IsNum(b1) \/ ~IsNum(a1)
       \/ ~IsNum(new_sample) \/ ~IsNum(f.prev_input) \/ ~IsNum(f.prev_output)
    THEN NonFinite
    ELSE Cap(RoundDiv(b0 * new_sample + b1 * f.prev_input - a1 * f.prev_output,
                      COEF))

\* a1 = -(1.0 - k) / alpha
CoefA1(f) == CoefOf(RatNeg(RatDiv(RatAdd(Rat(1, 1), RatNeg(f.k)), f.alpha)))

\* Filter::calculate_lpf without the feedback of prev_output (a1 = 0).
lpf_output_no_feedback(f, new_sample) ==
    LET b0 == CoefOf(RatDiv(f.k, f.alpha))
    IN  FilterOutput(f, new_sample, b0, b0, 0)

\* Filter::calculate_lpf: b0 = b1 = k / alpha.
lpf_output(f, new_sample) ==
    LET b0 == CoefOf(RatDiv(f.k, f.alpha))
    IN  FilterOutput(f, new_sample, b0, b0, CoefA1(f))

calculate_lpf(f, new_sample) ==
    [f EXCEPT !.prev_input = new_sample, !.prev_output = lpf_output(f, new_sample)]

\* Filter::calculate_hpf without the feedback of prev_output (a1 = 0).
hpf_output_no_feedback(f, new_sample) ==
    LET b0 == CoefOf(RatDiv(Rat(1, 1), f.alpha))
        b1 == CoefOf(RatDiv(Rat(-1, 1), f.alpha))
    IN  FilterOutput(f, new_sample, b0, b1, 0)

\* Filter::calculate_hpf: b0 = 1.0 / alpha, b1 = -1.0 / alpha.
hpf_output(f, new_sample) ==
    LET b0 == CoefOf(RatDiv(Rat(1, 1), f.alpha))
        b1 == CoefOf(RatDiv(Rat(-1, 1), f.alpha))
    IN  FilterOutput(f, new_sample, b0, b1, CoefA1(f))

calculate_hpf(f, new_sample) ==
    [f EXCEPT !.prev_input = new_sample, !.prev_output = hpf_output(f, new_sample)]

\* ------------------------------------------------------------ SignalProcessor
\* float decay = 0.99, held as the exponent of 2^(-1/69) = 0.990.
DecayDefault == Rat(1, 69)

\* SignalProcessor::SignalProcessor and the member defaults.
SignalProcessorNew ==
    [current_envelope_position |-> 0,
     min_val |-> OfInt(0), max_val |-> OfInt(127), gain |-> OfInt(1),
     sampling_frequency |-> 44100, decay |-> DecayDefault,
     lowFilter |-> FilterDefault, highFilter |-> FilterDefault]

\* level * decay, decay = 2^(-e) for the exponent e = dec.n/dec.d.  2^(-x)
\* on [0, 1] is taken as (3 - x)/(3 + x) (exact at 0 and 1); the whole part of
\* e halves the level once each.  An exponent with d = 0 is -1/0: decay is 0.
DecayMul(level, dec) ==
    IF ~IsNum(level) THEN NonFinite
    ELSE IF dec.d = 0 \/ level = 0 THEN 0
    ELSE IF dec.n >= 0
    THEN LET shift == dec.n \div dec.d
             r     == dec.n % dec.d
         IN  IF shift >= 30 THEN 0
             ELSE RoundDiv(RoundDiv(level * (3 * dec.d - r), 3 * dec.d + r),
                           Pow2(shift))
    ELSE LET shift == (-dec.n) \div dec.d
             r     == (-dec.n) % dec.d
         IN  IF shift >= 17 \/ Abs(level) * Pow2(shift) > MaxMag THEN NonFinite
             ELSE Cap(RoundDiv(level * Pow2(shift) * (3 * dec.d + r),
                               3 * dec.d - r))

\* The outcome of `abs(sample) > current_envelope_position`.  With a
\* non-finite operand the outcome depends on which value it is (false for
\* NaN, by sign for inf): gt is that outcome.
EnvelopeRises(sample, level, gt) ==
    IF IsNum(sample) /\ IsNum(level) THEN Abs(sample) > level ELSE gt

\* SignalProcessor::updateEnvelopePosition with integer abs (::abs(int)).
updateEnvelopePosition_intabs(sp, sample, gt) ==
    LET decayed == DecayMul(sp.current_envelope_position, sp.decay)
        mag     == IF IsNum(sample) THEN OfInt(ToInt(Abs(sample))) ELSE NonFinite
    IN  [sp EXCEPT !.current_envelope_position =
            IF EnvelopeRises(mag, decayed, gt) THEN mag ELSE decayed]

\* SignalProcessor::updateEnvelopePosition.
updateEnvelopePosition(sp, sample, gt) ==
    LET decayed == DecayMul(sp.current_envelope_position, sp.decay)
        mag     == IF IsNum(sample) THEN Abs(sample) ELSE NonFinite
    IN  [sp EXCEPT !.current_envelope_position =
            IF EnvelopeRises(sample, decayed, gt) THEN mag ELSE decayed]

\* The value takeInSample hands to updateEnvelopePosition: the sample scaled
\* by gain, through the lowpass, then through the highpass.
FilteredSample(sp, sample) ==
    hpf_output(sp.highFilter, lpf_output(sp.lowFilter, FMul(sample, sp.gain)))

\* SignalProcessor::takeInSample with the highpass before the lowpass.
takeInSample_highpass_first(sp, sample, gt) ==
    LET scaled == FMul(sample, sp.gain)
        high   == calculate_hpf(sp.highFilter, scaled)
        low    == calculate_lpf(sp.lowFilter, high.prev_output)
    IN  updateEnvelopePosition(
            [sp EXCEPT !.lowFilter = low, !.highFilter = high],
            low.prev_output, gt)

\* SignalProcessor::takeInSample.
takeInSample(sp, sample, gt) ==
    LET scaled == FMul(sample, sp.gain)
        low    == calculate_lpf(sp.lowFilter, scaled)
        high   == calculate_hpf(sp.highFilter, low.prev_output)
    IN  updateEnvelopePosition(
            [sp EXCEPT !.lowFilter = low, !.highFilter = high],
            high.prev_output, gt)

\* float scaled_envelope_position of getEnvelopePosition.
ScaledEnvelopePosition(sp) ==
    FAdd(FMul(sp.current_envelope_position, FAdd(sp.max_val, -sp.min_val)),
         sp.min_val)

\* SignalProcessor::getEnvelopePosition without the clamp to the bounds.
getEnvelopePosition_unclamped(sp, ub) ==
    IF IsNum(ScaledEnvelopePosition(sp)) THEN ToInt(ScaledEnvelopePosition(sp))
    ELSE ub

\* SignalProcessor::getEnvelopePosition.  (int) of a float that is no finite
\* number of int's range is undefined: ub is the int the build produces.
getEnvelopePosition(sp, ub) ==
    LET scaled     == ScaledEnvelopePosition(sp)
        low_bound  == MinOf(ToInt(sp.max_val), ToInt(sp.min_val))
        high_bound == MaxOf(ToInt(sp.min_val), ToInt(sp.max_val))
        as_int     == IF IsNum(scaled) THEN ToInt(scaled) ELSE ub
    IN  MaxOf(MinOf(as_int, high_bound), low_bound)

\* SignalProcessor::setMinValue, setMaxValue, setGainValue.
setMinValue(sp, new_min) == [sp EXCEPT !.min_val = new_min]

setMaxValue(sp, new_max) == [sp EXCEPT !.max_val = new_max]

setGainValue(sp, new_gain) == [sp EXCEPT !.gain = new_gain]

\* SignalProcessor::setLowpassValue, setHighpassValue.
setLowpassValue(sp, lp_val) ==
    [sp EXCEPT !.lowFilter = set_cutoff_frequency(sp.lowFilter, lp_val)]

setHighpassValue(sp, hp_val) ==
    [sp EXCEPT !.highFilter = set_cutoff_frequency(sp.highFilter, hp_val)]

\* setRecoveryTimeValue taking num_samples at 44100 Hz whatever the
\* sampling frequency is.
setRecoveryTimeValue_fixed_rate(sp, recovery_time) ==
    LET rt == MaxOf(recovery_time, 1000)
    IN  [sp EXCEPT !.decay = RatDiv(Rat(1000000, rt), Rat(44100, 1))]

\* SignalProcessor::setRecoveryTimeValue, recovery_time in microseconds:
\* fmax(recovery_time, 0.001), num_samples = recovery_time * sampling_frequency,
\* decay = pow(2, -1 / num_samples), held as the exponent 1 / num_samples.
setRecoveryTimeValue(sp, recovery_time) ==
    LET rt == MaxOf(recovery_time, 1000)
    IN  [sp EXCEPT !.decay = RatDiv(Rat(1000000, rt), Rat(sp.sampling_frequency, 1))]

\* The float that pow(2, -e) is stored as lies strictly between 0 and 1, for
\* the exponent e = dec.n/dec.d: e is positive, and 2^(-e) is above 2^(-150),
\* half the smallest positive float, below which the store rounds to 0.  (The
\* store rounds to 1 only for e below 2^(-25), which needs a frequency above
\* 10^10 Hz.)
DecayStrictlyInsideUnit(dec) ==
    /\ RatFinite(dec)
    /\ dec.n > 0
    /\ dec.n < 150 * dec.d

\* SignalProcessor::setSamplingFrequency that does not reach the highpass.
setSamplingFrequency_filters_stale(sp, freq) ==
    [sp EXCEPT !.sampling_frequency = freq,
               !.lowFilter = set_sampling_frequency(sp.lowFilter, freq)]

\* SignalProcessor::setSamplingFrequency.
setSamplingFrequency(sp, freq) ==
    [sp EXCEPT !.sampling_frequency = freq,
               !.lowFilter = set_sampling_frequency(sp.lowFilter, freq),
               !.highFilter = set_sampling_frequency(sp.highFilter, freq)]

\* ------------------------------------------------------------ the plug-in
VARIABLES
    signalProcessor,            \* the SignalProcessor member
    user_param,                 \* the six juce::AudioParameterFloat values
    samples_per_midi_message, elapsed_since_midi, elapsed_since_drawer,
    midi_value,
    output_device,              \* TRUE: the unique_ptr holds a device
    pc, remaining,              \* processBlock: "idle" | "loop", num_samples - index
    crashed,                    \* the process died on a null output_device
    \* history, read by the properties only
    prepared,                   \* prepareToPlay has run
    prepares, writes, taken, calls,
    emit_log,                   \* sample numbers, counted from the last
                                \* prepareToPlay, at which a message was emitted
    midi_channel, midi_controller_type,
    midi_info,                  \* the three numbers the string holds, <<>> empty
    message,                    \* the MidiMessage last handed to sendMessageNow
    state_block,                \* the XML last written by getStateInformation
    last_call,                  \* the last call made by the host or the GUI
    host_calls,                 \* the number of those calls
    rt_unsafe,                  \* what processBlock did that may block or allocate
    arg,                        \* the argument of the last direct call
    level_log,                  \* the sample and the result of each direct
                                \* update since the last setter
    frame_log,                  \* the frames processed since the last prepareToPlay
    value_log,                  \* the values emitted since the last prepareToPlay
    stream_origin               \* the SignalProcessor, the parameters and the
                                \* number of parameter writes as the last
                                \* prepareToPlay left them

vars == <<signalProcessor, user_param, samples_per_midi_message,
          elapsed_since_midi, elapsed_since_drawer, midi_value, output_device,
          pc, remaining, crashed, prepared, prepares, writes, taken, calls,
          emit_log, midi_channel, midi_controller_type, midi_info, message,
          state_block, last_call, host_calls, rt_unsafe, arg, level_log,
          frame_log, value_log, stream_origin>>

\* The history of the sample stream since the last prepareToPlay.
streamVars == <<frame_log, value_log, stream_origin>>

\* The MIDI settings and what the last emission left.
midiVars == <<midi_channel, midi_controller_type, midi_info, message>>

\* The variables only the direct callers of SignalProcessor use.
directVars == <<arg, level_log>>

\* midi_message_rate = 10 (constructor).
midi_message_rate == 10

\* The constructor's parameter defaults: gain in dB, min and max in percent,
\* the cutoffs in Hz, the recovery time in microseconds.
UserParamDefault ==
    [gain |-> 0, min_pos |-> 0, max_pos |-> 100,
     low_pass |-> 20000, hi_pass |-> 0, recovery |-> 0]

\* Values the host or the GUI writes to each parameter, inside its range.
ParamValues ==
    [gain |-> {0, 20}, min_pos |-> {0, 50}, max_pos |-> {100, 10},
     low_pass |-> {20000, 4}, hi_pass |-> {0, 4}, recovery |-> {0, 100000}]

\* Sampling frequencies the host hands to prepareToPlay.
SampleRates == {-15, 0, 6, 15, 24}

\* One stereo frame of the buffer: a sample per input channel.
Frames == {<<SCALE, SCALE>>, <<-SCALE, 0>>}

\* What an uninitialised int member may hold.
Indeterminate == {0, 2}

\* Outcomes of the undefined float-to-int conversion.
UndefinedInts == {-(2^20), 0, 2^20}

\* pow(10.0, dB / 20.0) for whole multiples of 20 dB.
DbToGain(db) ==
    IF db >= 0 THEN Cap(SCALE * 10^(db \div 20))
    ELSE RoundDiv(SCALE, 10^((-db) \div 20))

\* (percent / 100.0) * 127.0
PercentToMidi(pct) == RoundDiv(pct * 127 * SCALE, 100)

\* EnvelopeFollowerAudioProcessor::updateMathParams without its setGainValue
\* call.
updateMathParams_without_gain(sp, up) ==
    LET sp1 == setMaxValue(sp, PercentToMidi(up.max_pos))
        sp2 == setMinValue(sp1, PercentToMidi(up.min_pos))
        sp4 == setLowpassValue(sp2, up.low_pass)
        sp5 == setHighpassValue(sp4, up.hi_pass)
    IN  setRecoveryTimeValue(sp5, up.recovery)

\* EnvelopeFollowerAudioProcessor::updateMathParams that also clears the
\* envelope level and the lowpass memory.
updateMathParams_clearing_memory(sp, up) ==
    LET sp1 == setMaxValue(sp, PercentToMidi(up.max_pos))
        sp2 == setMinValue(sp1, PercentToMidi(up.min_pos))
        sp3 == setGainValue(sp2, DbToGain(up.gain))
        sp4 == setLowpassValue(sp3, up.low_pass)
        sp5 == setHighpassValue(sp4, up.hi_pass)
        sp6 == setRecoveryTimeValue(sp5, up.recovery)
    IN  [sp6 EXCEPT !.current_envelope_position = 0,
                    !.lowFilter.prev_input = 0,
                    !.lowFilter.prev_output = 0]

\* EnvelopeFollowerAudioProcessor::updateMathParams.
updateMathParams(sp, up) ==
    LET sp1 == setMaxValue(sp, PercentToMidi(up.max_pos))
        sp2 == setMinValue(sp1, PercentToMidi(up.min_pos))
        sp3 == setGainValue(sp2, DbToGain(up.gain))
        sp4 == setLowpassValue(sp3, up.low_pass)
        sp5 == setHighpassValue(sp4, up.hi_pass)
    IN  setRecoveryTimeValue(sp5, up.recovery)

\* The average of a frame over the input channels.
RECURSIVE SumSeq(_)
SumSeq(q) == IF q = <<>> THEN 0 ELSE Head(q) + SumSeq(Tail(q))

ChannelAverage(frame) == RoundDiv(SumSeq(frame), Len(frame))

\* processBlock's test for a MIDI message after this sample, the counter
\* compared before its increment.
MidiMessageDue_late(elapsed, per_message) == elapsed = per_message

\* processBlock's test for a MIDI message after this sample: elapsed_since_midi
\* is incremented, then compared with samples_per_midi_message.
MidiMessageDue(elapsed, per_message) == elapsed + 1 = per_message

\* The outcomes the comparison in updateEnvelopePosition can have for this
\* sample: one when its operands are finite.
GtChoices(sp, sample) ==
    IF /\ IsNum(FilteredSample(sp, sample))
       /\ IsNum(DecayMul(sp.current_envelope_position, sp.decay))
    THEN {FALSE} ELSE BOOLEAN

\* The ints the conversion in getEnvelopePosition can produce: its argument
\* when the scaled level is finite (ub is then not read).
UbChoices(sp) == IF IsNum(ScaledEnvelopePosition(sp)) THEN {0} ELSE UndefinedInts

\* juce::MidiMessage::controllerEvent: the channel limited to 1..16, the
\* controller number and the value masked to seven bits.
controllerEvent(channel, controllerType, value) ==
    <<MinOf(MaxOf(channel - 1, 0), 15) + 1, controllerType % 128, value % 128>>

\* The text processBlock puts in midi_info: the three ints in decimal,
\* separated by spaces, held as the three numbers.
MidiInfo(channel, controllerType, value) == <<channel, controllerType, value>>

Init ==
    /\ signalProcessor = SignalProcessorNew
    /\ user_param = UserParamDefault
    /\ samples_per_midi_message \in Indeterminate
    /\ elapsed_since_midi \in Indeterminate
    /\ elapsed_since_drawer \in Indeterminate
    /\ midi_value = 0
    /\ output_device = FALSE
    /\ pc = "idle"
    /\ remaining = 0
    /\ crashed = FALSE
    /\ prepared = FALSE
    /\ prepares = 0
    /\ writes = 0
    /\ taken = 0
    /\ calls = 0
    /\ emit_log = <<>>
    /\ midi_channel = 1
    /\ midi_controller_type = 14
    /\ midi_info = <<>>
    /\ message = <<>>
    /\ state_block = <<>>
    /\ last_call = ""
    /\ host_calls = 0
    /\ rt_unsafe = {}
    /\ arg = 0
    /\ level_log = <<>>
    /\ frame_log = <<>>
    /\ value_log = <<>>
    /\ stream_origin = [sp |-> SignalProcessorNew, up |-> UserParamDefault,
                        writes |-> 0]

\* EnvelopeFollowerAudioProcessor::prepareToPlay; device_made is whether
\* makeMIDIOutputDevice got a device from juce::MidiOutput::createNewDevice.
prepareToPlay(sampleRate, device_made) ==
    /\ pc = "idle" /\ ~crashed
    /\ prepares < MaxPrepares
    /\ signalProcessor' = setSamplingFrequency(signalProcessor, sampleRate)
    /\ samples_per_midi_message' = TruncDiv(sampleRate, midi_message_rate)
    /\ elapsed_since_midi' = 0
    /\ elapsed_since_drawer' = 0
    /\ output_device' = device_made
    /\ prepared' = TRUE
    /\ prepares' = prepares + 1
    /\ emit_log' = <<>>
    /\ frame_log' = <<>>
    /\ value_log' = <<>>
    /\ stream_origin' = [sp |-> signalProcessor', up |-> user_param,
                         writes |-> writes]
    /\ UNCHANGED <<user_param, midi_value, pc, remaining, crashed, writes,
                   taken, calls, midiVars, state_block, last_call, host_calls,
                   rt_unsafe, directVars>>

\* A parameter written by the host or the GUI (AudioParameterFloat is atomic).
ParameterChange(p, v) ==
    /\ ~crashed
    /\ writes < MaxWrites
    /\ v # user_param[p]
    /\ user_param' = [user_param EXCEPT ![p] = v]
    /\ writes' = writes + 1
    /\ last_call' = "setValueNotifyingHost"
    /\ UNCHANGED <<signalProcessor, samples_per_midi_message,
                   elapsed_since_midi, elapsed_since_drawer, midi_value,
                   output_device, pc, remaining, crashed, prepared, prepares,
                   taken, calls, emit_log, midiVars, state_block, host_calls,
                   rt_unsafe, directVars, streamVars>>

\* processBlock up to its sample loop: updateMathParams, num_samples.
ProcessBlockBegin(num_samples) ==
    /\ pc = "idle" /\ ~crashed
    /\ taken + num_samples <= MaxSamples
    /\ signalProcessor' = updateMathParams(signalProcessor, user_param)
    /\ pc' = "loop"
    /\ remaining' = num_samples
    /\ rt_unsafe' = rt_unsafe \cup {"allocation"}
    /\ UNCHANGED <<user_param, samples_per_midi_message, elapsed_since_midi,
                   elapsed_since_drawer, midi_value, output_device, crashed,
                   prepared, prepares, writes, taken, calls, emit_log,
                   midiVars, state_block, last_call, host_calls, directVars,
                   streamVars>>

\* One iteration of processBlock's sample loop on one frame of the buffer.
\* The choices are those the step leaves open: gt, the comparison in
\* updateEnvelopePosition when an operand is not finite; ub, the undefined
\* conversion in getEnvelopePosition; dies, whether the process dies in
\* sendCCMessage when output_device is null (undefined behaviour).
\* channel_now and type_now are midi_channel and midi_controller_type as
\* the statement composing midi_info reads them, after sendCCMessage has read
\* them: they differ from the variables when setMidiChannel or setMidiType,
\* running on the GUI thread, wrote in between.
ProcessBlockSampleRaced(frame, channel_now, type_now) ==
    LET sample  == ChannelAverage(frame)
        emit    == MidiMessageDue(elapsed_since_midi, samples_per_midi_message)
        landed  == (IF channel_now # midi_channel THEN 1 ELSE 0)
                   + (IF type_now # midi_controller_type THEN 1 ELSE 0)
    IN  /\ pc = "loop" /\ ~crashed
        /\ remaining > 0
        /\ host_calls + landed <= MaxHostCalls
        /\ landed > 0 => emit
        /\ midi_channel' = channel_now
        /\ midi_controller_type' = type_now
        /\ host_calls' = host_calls + landed
        /\ last_call' = IF type_now # midi_controller_type THEN "setMidiType"
                        ELSE IF channel_now # midi_channel THEN "setMidiChannel"
                        ELSE last_call
        /\ \E gt \in GtChoices(signalProcessor, sample) :
             LET sp1 == takeInSample(signalProcessor, sample, gt)
             IN  /\ signalProcessor' = sp1
                 /\ IF emit
                    THEN /\ elapsed_since_midi' = 0
                         /\ \E ub \in UbChoices(sp1) :
                              midi_value' = getEnvelopePosition(sp1, ub)
                         /\ \E dies \in IF output_device THEN {FALSE} ELSE BOOLEAN :
                              /\ crashed' = dies
                              /\ midi_info' =
                                   IF dies THEN midi_info
                                   ELSE MidiInfo(channel_now, type_now, midi_value')
                         /\ message' = controllerEvent(midi_channel,
                                           midi_controller_type, midi_value')
                         /\ rt_unsafe' = rt_unsafe \cup {"system call"}
                         /\ emit_log' = Append(emit_log, elapsed_since_drawer + 1)
                         /\ value_log' = Append(value_log, midi_value')
                    ELSE /\ elapsed_since_midi' = elapsed_since_midi + 1
                         /\ UNCHANGED <<midi_value, crashed, emit_log,
                                        midi_info, message, rt_unsafe,
                                        value_log>>
        /\ elapsed_since_drawer' = elapsed_since_drawer + 1
        /\ frame_log' = Append(frame_log, frame)
        /\ remaining' = remaining - 1
        /\ taken' = taken + 1
        /\ UNCHANGED <<user_param, samples_per_midi_message, output_device, pc,
                       prepared, prepares, writes, calls, state_block,
                       directVars, stream_origin>>

\* The iteration when no GUI call lands inside it.
ProcessBlockSample(frame) ==
    ProcessBlockSampleRaced(frame, midi_channel, midi_controller_type)

\* processBlock after its sample loop.
ProcessBlockEnd ==
    /\ pc = "loop" /\ ~crashed
    /\ remaining = 0
    /\ pc' = "idle"
    /\ UNCHANGED <<signalProcessor, user_param, samples_per_midi_message,
                   elapsed_since_midi, elapsed_since_drawer, midi_value,
                   output_device, remaining, crashed, prepared, prepares,
                   writes, taken, calls, emit_log, midiVars, state_block,
                   last_call, host_calls, rt_unsafe, directVars, streamVars>>

Next ==
    \/ \E fs \in SampleRates, made \in BOOLEAN : prepareToPlay(fs, made)
    \/ \E p \in DOMAIN ParamValues : \E v \in ParamValues[p] : ParameterChange(p, v)
    \/ \E n \in 0..MaxBlock : ProcessBlockBegin(n)
    \/ \E frame \in Frames : ProcessBlockSample(frame)
    \/ ProcessBlockEnd

Spec == Init /\ [][Next]_vars
\* ------------------------------------------------------------ SignalProcessor alone
\* A SignalProcessor driven through its public member functions by a caller
\* other than the plug-in, with arguments of its own.  pc is the name of the
\* last call; the value getEnvelopePosition returned is held in midi_value.

\* Arguments of setMinValue and setMaxValue: -10, -2.5, 63.5 and 200.5.
BoundArgs ==
    {-10 * SCALE, -(5 * SCALE) \div 2, (127 * SCALE) \div 2, (401 * SCALE) \div 2}

\* Arguments of setGainValue.
GainArgs == {2 * SCALE}

\* Arguments of setLowpassValue and setHighpassValue, in Hz.
LowpassArgs == {11025, 0}

HighpassArgs == {0}

\* Arguments of setRecoveryTimeValue, in microseconds.
RecoveryArgs == {0, 100000}

\* Arguments of setSamplingFrequency, in Hz.
FrequencyArgs == {0, 6, 15}

\* Arguments of takeInSample: 4.0 and -2.0.
SampleArgs == {4 * SCALE, -2 * SCALE}

\* The variables of the plug-in outside the SignalProcessor.
pluginVars ==
    <<user_param, samples_per_midi_message, elapsed_since_midi,
      elapsed_since_drawer, output_device, remaining, crashed, prepared,
      prepares, writes, taken, emit_log, midiVars, state_block, host_calls,
      rt_unsafe, streamVars>>

InitSP ==
    /\ signalProcessor = SignalProcessorNew
    /\ user_param = UserParamDefault
    /\ samples_per_midi_message = 0
    /\ elapsed_since_midi = 0
    /\ elapsed_since_drawer = 0
    /\ midi_value = 0
    /\ output_device = FALSE
    /\ pc = "SignalProcessor"
    /\ remaining = 0
    /\ crashed = FALSE
    /\ prepared = FALSE
    /\ prepares = 0
    /\ writes = 0
    /\ taken = 0
    /\ calls = 0
    /\ emit_log = <<>>
    /\ midi_channel = 1
    /\ midi_controller_type = 14
    /\ midi_info = <<>>
    /\ message = <<>>
    /\ state_block = <<>>
    /\ last_call = ""
    /\ host_calls = 0
    /\ rt_unsafe = {}
    /\ arg = 0
    /\ level_log = <<>>
    /\ frame_log = <<>>
    /\ value_log = <<>>
    /\ stream_origin = [sp |-> SignalProcessorNew, up |-> UserParamDefault,
                        writes |-> 0]

\* A call of a member function that leaves the SignalProcessor as sp.
Called(name, value, sp) ==
    /\ calls < MaxCalls
    /\ signalProcessor' = sp
    /\ pc' = name
    /\ arg' = value
    /\ calls' = calls + 1
    /\ UNCHANGED <<midi_value, level_log, last_call, pluginVars>>

CallSetMinValue(new_min) ==
    Called("setMinValue", new_min, setMinValue(signalProcessor, new_min))

CallSetMaxValue(new_max) ==
    Called("setMaxValue", new_max, setMaxValue(signalProcessor, new_max))

CallSetGainValue(new_gain) ==
    Called("setGainValue", new_gain, setGainValue(signalProcessor, new_gain))

CallSetLowpassValue(lp_val) ==
    Called("setLowpassValue", lp_val, setLowpassValue(signalProcessor, lp_val))

CallSetHighpassValue(hp_val) ==
    Called("setHighpassValue", hp_val, setHighpassValue(signalProcessor, hp_val))

CallSetRecoveryTimeValue(recovery_time) ==
    Called("setRecoveryTimeValue", recovery_time,
           setRecoveryTimeValue(signalProcessor, recovery_time))

CallSetSamplingFrequency(freq) ==
    Called("setSamplingFrequency", freq, setSamplingFrequency(signalProcessor, freq))

CallTakeInSample(sample) ==
    \E gt \in GtChoices(signalProcessor, sample) :
        Called("takeInSample", sample, takeInSample(signalProcessor, sample, gt))

\* getEnvelopePosition is const: the caller keeps the int it returns.
CallGetEnvelopePosition ==
    /\ pc # "getEnvelopePosition"
    /\ \E ub \in UbChoices(signalProcessor) :
         midi_value' = getEnvelopePosition(signalProcessor, ub)
    /\ pc' = "getEnvelopePosition"
    /\ UNCHANGED <<signalProcessor, calls, directVars, last_call, pluginVars>>

NextSP ==
    \/ \E v \in BoundArgs : CallSetMinValue(v)
    \/ \E v \in BoundArgs : CallSetMaxValue(v)
    \/ \E v \in GainArgs : CallSetGainValue(v)
    \/ \E v \in LowpassArgs : CallSetLowpassValue(v)
    \/ \E v \in HighpassArgs : CallSetHighpassValue(v)
    \/ \E v \in RecoveryArgs : CallSetRecoveryTimeValue(v)
    \/ \E v \in FrequencyArgs : CallSetSamplingFrequency(v)
    \/ \E v \in SampleArgs : CallTakeInSample(v)
    \/ CallGetEnvelopePosition

SpecSP == InitSP /\ [][NextSP]_vars

\* ------------------------------------------------------------ the host and the GUI
\* The plug-in with the calls the host and the editor make on their own
\* threads while the audio thread runs processBlock.

\* Items of the editor's channel_selector and type_selector.
ChannelIds == {2}

TypeIds == {7}

\* Sampling frequencies and frames of the behaviours of SpecGUI.
SampleRatesGUI == {15}

FramesGUI == {<<SCALE, SCALE>>}

\* juce::XmlElement::hasTagName: the element's own tag name is compared.
hasTagName(xml, possibleTagName) == xml.tag = possibleTagName

\* The XmlElement getStateInformation builds; copyXmlToBinary and
\* getXmlFromBinary carry it unchanged.
StateXml ==
    [tag |-> "sliderParams",
     attributes |->
        [gain |-> user_param.gain, min |-> user_param.min_pos,
         max |-> user_param.max_pos, lo |-> user_param.low_pass,
         hi |-> user_param.hi_pass, recovery |-> user_param.recovery,
         channel |-> midi_channel, type |-> midi_controller_type]]

\* What a host or GUI call leaves alone in the audio thread's state.
audioVars ==
    <<signalProcessor, samples_per_midi_message, elapsed_since_midi,
      elapsed_since_drawer, midi_value, output_device, pc, remaining, crashed,
      prepared, prepares, writes, taken, calls, emit_log, midi_info, message,
      rt_unsafe, directVars, streamVars>>

HostCalled(name) ==
    /\ ~crashed
    /\ host_calls < MaxHostCalls
    /\ host_calls' = host_calls + 1
    /\ last_call' = name
    /\ UNCHANGED audioVars

\* EnvelopeFollowerAudioProcessor::getStateInformation.
getStateInformation ==
    /\ HostCalled("getStateInformation")
    /\ state_block' = StateXml
    /\ UNCHANGED <<user_param, midi_channel, midi_controller_type>>

\* EnvelopeFollowerAudioProcessor::setStateInformation on the block the
\* plug-in wrote last.
setStateInformation ==
    LET xmlState == state_block
        Restored(name, old) ==
            IF hasTagName(xmlState, name) THEN xmlState.attributes[name] ELSE old
    IN  /\ state_block # <<>>
        /\ HostCalled("setStateInformation")
        /\ user_param' =
              [gain     |-> Restored("gain", user_param.gain),
               min_pos  |-> Restored("min", user_param.min_pos),
               max_pos  |-> Restored("max", user_param.max_pos),
               low_pass |-> Restored("lo", user_param.low_pass),
               hi_pass  |-> Restored("hi", user_param.hi_pass),
               recovery |-> Restored("recovery", user_param.recovery)]
        /\ midi_channel' = Restored("channel", midi_channel)
        /\ midi_controller_type' = Restored("type", midi_controller_type)
        /\ UNCHANGED state_block

\* EnvelopeFollowerAudioProcessor::setMidiChannel, from channelSelectorChanged.
setMidiChannel(new_channel) ==
    /\ HostCalled("setMidiChannel")
    /\ midi_channel' = new_channel
    /\ UNCHANGED <<user_param, midi_controller_type, state_block>>

\* EnvelopeFollowerAudioProcessor::setMidiType, from typeSelectorChanged.
setMidiType(new_type) ==
    /\ HostCalled("setMidiType")
    /\ midi_controller_type' = new_type
    /\ UNCHANGED <<user_param, midi_channel, state_block>>

NextGUI ==
    \/ \E fs \in SampleRatesGUI : prepareToPlay(fs, TRUE)
    \/ \E v \in ParamValues.gain : ParameterChange("gain", v)
    \/ \E n \in 1..MaxBlock : ProcessBlockBegin(n)
    \/ \E frame \in FramesGUI :
         \E c \in ChannelIds \cup {midi_channel} :
           \E t \in TypeIds \cup {midi_controller_type} :
             ProcessBlockSampleRaced(frame, c, t)
    \/ ProcessBlockEnd
    \/ getStateInformation
    \/ setStateInformation
    \/ \E c \in ChannelIds : setMidiChannel(c)
    \/ \E t \in TypeIds : setMidiType(t)

SpecGUI == Init /\ [][NextGUI]_vars

\* ------------------------------------------------------------ the envelope alone
\* A SignalProcessor whose envelope is driven with filtered samples handed
\* straight to updateEnvelopePosition.  pc is the name of the last call,
\* last_call the name of the last setter and arg its argument; level_log holds
\* the sample and the level it left of every update since the last setter.

\* Arguments of setSamplingFrequency, in Hz.
FrequencyArgsEnv == {10, 20}

\* Arguments of setRecoveryTimeValue, in microseconds: 0, 0.1 s and 0.2 s.
RecoveryArgsEnv == {0, 100000, 200000}

\* Filtered samples: 0 and 4.0.
FilteredArgs == {0, 4 * SCALE}

EnvCalled(name) ==
    /\ calls < MaxEnvCalls
    /\ calls' = calls + 1
    /\ pc' = name
    /\ UNCHANGED <<midi_value, pluginVars>>

EnvSetter(name, value, sp) ==
    /\ EnvCalled(name)
    /\ signalProcessor' = sp
    /\ last_call' = name
    /\ arg' = value
    /\ level_log' = <<>>

EnvSetSamplingFrequency(freq) ==
    EnvSetter("setSamplingFrequency", freq,
              setSamplingFrequency(signalProcessor, freq))

EnvSetRecoveryTimeValue(recovery_time) ==
    EnvSetter("setRecoveryTimeValue", recovery_time,
              setRecoveryTimeValue(signalProcessor, recovery_time))

EnvUpdateEnvelopePosition(sample) ==
    LET sp == updateEnvelopePosition(signalProcessor, sample, TRUE)
    IN  /\ EnvCalled("updateEnvelopePosition")
        /\ signalProcessor' = sp
        /\ level_log' = Append(level_log,
                               [sample |-> sample,
                                level |-> sp.current_envelope_position])
        /\ UNCHANGED <<last_call, arg>>

InitEnv == InitSP

NextEnv ==
    \/ \E v \in FrequencyArgsEnv : EnvSetSamplingFrequency(v)
    \/ \E v \in RecoveryArgsEnv : EnvSetRecoveryTimeValue(v)
    \/ \E v \in FilteredArgs : EnvUpdateEnvelopePosition(v)

SpecEnv == InitEnv /\ [][NextEnv]_vars

\* ------------------------------------------------------------ the lowpass alone
\* The lowFilter of a SignalProcessor driven through Filter's own member
\* functions.  last_call is the name of the last setter and arg its argument;
\* level_log holds the sample and the output of every calculate_lpf since the
\* last setter.

\* Arguments of set_cutoff_frequency, in Hz, at the default 44100 Hz:
\* Fs/10, Fs/4 and the plug-in's default 20000.
CutoffArgsLpf == {4410, 11025, 20000}

\* Arguments of calculate_lpf: 0 and 1.0.
SampleArgsLpf == {0, SCALE}

LpfSetCutoffFrequency(new_freq) ==
    EnvSetter("set_cutoff_frequency", new_freq,
              [signalProcessor EXCEPT
                  !.lowFilter = set_cutoff_frequency(@, new_freq)])

LpfCalculate(new_sample) ==
    LET f == calculate_lpf(signalProcessor.lowFilter, new_sample)
    IN  /\ EnvCalled("calculate_lpf")
        /\ signalProcessor' = [signalProcessor EXCEPT !.lowFilter = f]
        /\ level_log' = Append(level_log,
                               [sample |-> new_sample, level |-> f.prev_output])
        /\ UNCHANGED <<last_call, arg>>

NextLpf ==
    \/ \E v \in CutoffArgsLpf : LpfSetCutoffFrequency(v)
    \/ \E v \in SampleArgsLpf : LpfCalculate(v)

SpecLpf == InitSP /\ [][NextLpf]_vars

\* ------------------------------------------------------------ properties
\* The sampling frequency of the latest prepareToPlay, the level and the
\* filters, as the properties read them.
fs_now == signalProcessor.sampling_frequency

level_now == signalProcessor.current_envelope_position

\* Both filters' prev_input and prev_output and the envelope level are 0.
SignalMemoryZero ==
    /\ signalProcessor.lowFilter.prev_input = 0
    /\ signalProcessor.lowFilter.prev_output = 0
    /\ signalProcessor.highFilter.prev_input = 0
    /\ signalProcessor.highFilter.prev_output = 0
    /\ level_now = 0

\* C1.  After a prepareToPlay that set a period S = samples_per_midi_message
\* of at least 1, when N samples have been processed since that call (in
\* however many blocks), the sample loop has reached its emission branch
\* exactly floor(N / S) times, at the samples numbered S, 2S, 3S, ...
C1_EmissionsEveryPeriod ==
    (prepared /\ samples_per_midi_message >= 1) =>
        emit_log = [i \in 1..(elapsed_since_drawer \div samples_per_midi_message)
                        |-> i * samples_per_midi_message]

\* Three samples in two blocks after a prepare with period 2: one emission.
C1_Witness ==
    /\ prepared /\ samples_per_midi_message = 2
    /\ elapsed_since_drawer = 3 /\ pc = "idle"
    /\ emit_log = <<2>>

\* C2.  Between calls, once prepareToPlay has run with a sampling frequency
\* above 0, 0 <= elapsed_since_midi < samples_per_midi_message.
C2_CounterBelowPeriod ==
    (prepared /\ fs_now > 0 /\ pc = "idle") =>
        (0 <= elapsed_since_midi /\ elapsed_since_midi < samples_per_midi_message)

\* C3 as stated.  The value getEnvelopePosition returns lies between
\* min(min_val, max_val) and max(min_val, max_val), the float bounds.
C3_WithinFloatBounds ==
    pc = "getEnvelopePosition" =>
        /\ MinOf(signalProcessor.min_val, signalProcessor.max_val)
               <= OfInt(midi_value)
        /\ OfInt(midi_value)
               <= MaxOf(signalProcessor.min_val, signalProcessor.max_val)

\* C3, amended.  The value getEnvelopePosition returns lies between the
\* smaller and the larger of (int) min_val and (int) max_val, for every level
\* (also above 1, also not finite) and every pair of finite bounds (also
\* inverted, also not whole).
C3_WithinTruncatedBounds ==
    pc = "getEnvelopePosition" =>
        /\ MinOf(ToInt(signalProcessor.min_val), ToInt(signalProcessor.max_val))
               <= midi_value
        /\ midi_value
               <= MaxOf(ToInt(signalProcessor.min_val), ToInt(signalProcessor.max_val))

\* getEnvelopePosition returned the upper bound 127 for the inverted range
\* min_val = 200.5 > max_val = 127 at a level above 1, where the scaled level
\* is below both bounds.
C3_Witness ==
    /\ pc = "getEnvelopePosition"
    /\ signalProcessor.min_val = (401 * SCALE) \div 2
    /\ signalProcessor.max_val = OfInt(127)
    /\ IsNum(level_now) /\ level_now > SCALE
    /\ ToInt(ScaledEnvelopePosition(signalProcessor)) < 127
    /\ midi_value = 127

\* C4.  Whatever setMinValue, setMaxValue, setGainValue and takeInSample calls
\* came before, getEnvelopePosition returns a value in 0..127.
C4_ValidMidiValue ==
    pc = "getEnvelopePosition" => (0 <= midi_value /\ midi_value <= 127)

\* C5.  Each sample processBlock feeds to takeInSample leaves the level at
\* max(level_before * decay, |s|), s the filtered sample (the highpass output
\* of that call), whenever s and level_before * decay are finite; so a sample
\* with |s| above the decayed level leaves the level at exactly |s|.
C5_LevelIsMaxOfDecayedAndSample ==
    [][taken' = taken + 1 =>
          LET s       == signalProcessor'.highFilter.prev_output
              decayed == DecayMul(level_now, signalProcessor.decay)
          IN  (IsNum(s) /\ IsNum(decayed)) =>
                  /\ signalProcessor'.current_envelope_position
                         = MaxOf(decayed, Abs(s))
                  /\ (Abs(s) > decayed =>
                         signalProcessor'.current_envelope_position = Abs(s))]_vars

\* A second or later sample raised the level to the magnitude of a filtered
\* sample that is not whole.
C5_Witness ==
    /\ taken >= 2
    /\ IsNum(level_now) /\ level_now > 0 /\ level_now % SCALE # 0
    /\ IsNum(signalProcessor.highFilter.prev_output)
    /\ level_now = Abs(signalProcessor.highFilter.prev_output)

\* C6.  A zero or negative sampling frequency never gets into the pipeline:
\* the SignalProcessor and both filters keep a positive sampling_frequency
\* and finite coefficients, and no period is derived from such a frequency.
C6_NonPositiveFrequencyRejected ==
    /\ fs_now > 0
    /\ signalProcessor.lowFilter.sampling_frequency > 0
    /\ signalProcessor.highFilter.sampling_frequency > 0
    /\ RatFinite(signalProcessor.lowFilter.theta_c)
    /\ RatFinite(signalProcessor.highFilter.theta_c)
    /\ (prepared => samples_per_midi_message >= 0)

\* C7.  No sample is processed before prepareToPlay has run.
C7_NoSampleBeforePrepare == ~prepared => taken = 0

\* C8.  After any prepareToPlay, before the next sample, both filters'
\* prev_input and prev_output and the envelope level are 0.
C8_PrepareClearsSignalMemory ==
    (prepared /\ elapsed_since_drawer = 0) => SignalMemoryZero

\* C9.  Every prepareToPlay(fs) leaves samples_per_midi_message at
\* floor(fs / 10) and elapsed_since_midi at 0, and the first emission after
\* it comes exactly floor(fs / 10) samples later.  (\div is the floor of the
\* quotient.)
C9_PrepareSetsPeriod ==
    prepared =>
        /\ samples_per_midi_message = fs_now \div midi_message_rate
        /\ (elapsed_since_drawer = 0 => elapsed_since_midi = 0)
        /\ (emit_log # <<>> => emit_log[1] = fs_now \div midi_message_rate)
        /\ (elapsed_since_drawer >= fs_now \div midi_message_rate =>
                emit_log # <<>>)

\* C10.  prepareToPlay, through setSamplingFrequency and
\* Filter::set_sampling_frequency, leaves min_val, max_val, gain and both
\* filters' cutoff_frequency as they were.
C10_PrepareKeepsParameters ==
    [][prepares' # prepares =>
          /\ signalProcessor'.min_val = signalProcessor.min_val
          /\ signalProcessor'.max_val = signalProcessor.max_val
          /\ signalProcessor'.gain = signalProcessor.gain
          /\ signalProcessor'.lowFilter.cutoff_frequency
                 = signalProcessor.lowFilter.cutoff_frequency
          /\ signalProcessor'.highFilter.cutoff_frequency
                 = signalProcessor.highFilter.cutoff_frequency]_vars

\* prepareToPlay has run on a processor that had processed samples, so one
\* whose setters updateMathParams had called: the cutoffs hold parameter
\* values, not the Filter default.
C10_Witness ==
    /\ prepared /\ taken > 0 /\ elapsed_since_drawer = 0
    /\ signalProcessor.lowFilter.cutoff_frequency # 1000
    /\ signalProcessor.highFilter.cutoff_frequency # 1000

\* theta_c, k and alpha are what calc_coeff derives from the filter's
\* cutoff_frequency and sampling_frequency.
CoefficientsCurrent(f) == f = calc_coeff(f)

\* C11.  Whenever a sample has been filtered (takeInSample runs calculate_lpf
\* on lowFilter and calculate_hpf on highFilter, which leave the frequencies
\* and the coefficients alone), both filters' theta_c, k and alpha are the
\* values calc_coeff derives from their cutoff_frequency and
\* sampling_frequency, also with no setter call since construction.
C11_CoefficientsCurrentWhenFiltering ==
    pc = "takeInSample" =>
        /\ CoefficientsCurrent(signalProcessor.lowFilter)
        /\ CoefficientsCurrent(signalProcessor.highFilter)

\* The six parameters as the SignalProcessor holds them.
ParametersInEffect(sp) ==
    <<sp.gain, sp.min_val, sp.max_val, sp.lowFilter.cutoff_frequency,
      sp.highFilter.cutoff_frequency, sp.decay>>

\* The six parameters as updateMathParams converts them from the user
\* parameters up at the sampling frequency freq.
ParametersOf(up, freq) ==
    <<DbToGain(up.gain), PercentToMidi(up.min_pos), PercentToMidi(up.max_pos),
      up.low_pass, up.hi_pass,
      RatDiv(Rat(1000000, MaxOf(up.recovery, 1000)), Rat(freq, 1))>>

\* C12.  processBlock copies the six user parameters into the SignalProcessor
\* as it starts, before its first sample, and at no other point of the block:
\* while the block is being processed neither a sample nor a parameter write
\* changes the values in effect, so a write made during a block reaches no
\* sample of it and is copied at the start of the next.  The sample loop never
\* waits: a parameter write leaves what the loop's next iteration depends on
\* (pc, remaining, crashed) as it was.
C12_ParametersCopiedAtBlockStart ==
    [][/\ (pc = "idle" /\ pc' = "loop") =>
              ParametersInEffect(signalProcessor')
                  = ParametersOf(user_param, fs_now)
       /\ pc = "loop" =>
              ParametersInEffect(signalProcessor')
                  = ParametersInEffect(signalProcessor)
       /\ user_param' # user_param =>
              (pc' = pc /\ remaining' = remaining /\ crashed' = crashed)]_vars

\* A block in which the gain was written while it was being processed: every
\* sample has been taken with the gain copied at its start.
C12_Witness ==
    /\ pc = "loop" /\ remaining = 0 /\ taken > 0
    /\ signalProcessor.lowFilter.prev_input # 0
    /\ signalProcessor.gain = DbToGain(0)
    /\ user_param.gain = 20

\* C13: after setStateInformation has read the block getStateInformation
\* wrote, the six parameters, the MIDI channel and the MIDI controller type
\* have the values that block holds, whatever they were changed to since.
C13_StateRoundTrip ==
    last_call = "setStateInformation" =>
        /\ user_param.gain = state_block.attributes.gain
        /\ user_param.min_pos = state_block.attributes.min
        /\ user_param.max_pos = state_block.attributes.max
        /\ user_param.low_pass = state_block.attributes.lo
        /\ user_param.hi_pass = state_block.attributes.hi
        /\ user_param.recovery = state_block.attributes.recovery
        /\ midi_channel = state_block.attributes.channel
        /\ midi_controller_type = state_block.attributes.type

\* C14: after setRecoveryTimeValue(r) with r below 1 ms the decay is the one
\* setRecoveryTimeValue(0.001) gives at the current sampling frequency, and
\* for every sampling frequency above 0 it lies strictly between 0 and 1.
C14_ShortRecoveryClamped ==
    (pc = "setRecoveryTimeValue" /\ arg < 1000) =>
        /\ signalProcessor.decay = setRecoveryTimeValue(signalProcessor, 1000).decay
        /\ fs_now > 0 => DecayStrictlyInsideUnit(signalProcessor.decay)

\* The number of samples in the recovery time T (microseconds) at the
\* current sampling frequency.
SamplesIn(T) == ((T \div 1000) * fs_now) \div 1000

\* The level is within the tolerance of half of L: one fixed-point unit and
\* 1/32 of L, which covers the error of the rational 2^(-x) in DecayMul.
NearHalf(level, L) == Abs(2 * level - L) <= 2 * (L \div 32 + 1)

\* After setRecoveryTimeValue(T), a sample that set the level to L > 0
\* followed by n zero samples: the level is near L/2 after them and never
\* rose over them.
HalfLifeAfter(n) ==
    (/\ last_call = "setRecoveryTimeValue"
     /\ Len(level_log) = n + 1
     /\ level_log[1].level = Abs(level_log[1].sample)
     /\ level_log[1].level > 0
     /\ \A i \in 2..(n + 1) : level_log[i].sample = 0)
    => /\ NearHalf(level_log[n + 1].level, level_log[1].level)
       /\ \A i \in 1..n : level_log[i + 1].level <= level_log[i].level

\* C15: the half-life law for every recovery time T.
C15_HalfLifeLaw ==
    last_call = "setRecoveryTimeValue" => HalfLifeAfter(SamplesIn(arg))

\* C15, amended: the half-life law for a recovery time T of at least 1 ms
\* that holds a whole number n >= 1 of samples; the decay is then 2^(-1/n).
C15_HalfLifeLawFromOneMillisecond ==
    (/\ last_call = "setRecoveryTimeValue"
     /\ arg >= 1000
     /\ SamplesIn(arg) >= 1
     /\ SamplesIn(arg) * 1000 = (arg \div 1000) * fs_now)
    => /\ signalProcessor.decay = Rat(1, SamplesIn(arg))
       /\ HalfLifeAfter(SamplesIn(arg))

C15_Witness ==
    /\ last_call = "setRecoveryTimeValue"
    /\ arg = 200000
    /\ fs_now = 20
    /\ Len(level_log) = 5
    /\ level_log[1].level = 4 * SCALE
    /\ \A i \in 2..5 : level_log[i].sample = 0
    /\ level_now < 4 * SCALE

C17_MidiInfoDescribesLastMessage ==
    (midi_info # <<>> /\ ~crashed) =>
        midi_info = MidiInfo(message[1], message[2], message[3])

\* C18: processBlock acquires no lock, makes no blocking call and allocates
\* no memory: nothing it has done is in rt_unsafe.
C18_ProcessBlockRealTimeSafe == rt_unsafe = {}

\* prev_input and prev_output of both filters and the envelope level.
SignalMemory(sp) ==
    <<sp.lowFilter.prev_input, sp.lowFilter.prev_output,
      sp.highFilter.prev_input, sp.highFilter.prev_output,
      sp.current_envelope_position>>

\* The setters of SignalProcessor.
SetterNames ==
    {"setMinValue", "setMaxValue", "setGainValue", "setLowpassValue",
     "setHighpassValue", "setRecoveryTimeValue", "setSamplingFrequency"}

\* C19: a call of setMinValue, setMaxValue, setGainValue, setLowpassValue,
\* setHighpassValue or setRecoveryTimeValue (or of setSamplingFrequency, which
\* calls the other Filter setter) leaves both filters' prev_input and
\* prev_output and the envelope level as they were.
C19_SettersKeepSignalMemory ==
    [][pc' \in SetterNames =>
          SignalMemory(signalProcessor') = SignalMemory(signalProcessor)]_vars

\* setLowpassValue was called on a SignalProcessor whose filters and
\* envelope hold what a sample left.
C19_Witness ==
    /\ pc = "setLowpassValue"
    /\ IsNum(level_now) /\ level_now > 0
    /\ signalProcessor.lowFilter.prev_input # 0
    /\ IsNum(signalProcessor.lowFilter.prev_output)
    /\ signalProcessor.lowFilter.prev_output # 0

\* calculate_lpf runs in this step on a lowpass with cutoff 0 (k = 0,
\* alpha = 1) whose memory is finite.
LowpassStepAtZeroCutoff ==
    /\ pc' = "takeInSample"
    /\ calls' = calls + 1
    /\ signalProcessor.lowFilter.k = Rat(0, 1)
    /\ signalProcessor.lowFilter.alpha = Rat(1, 1)
    /\ IsNum(signalProcessor.lowFilter.prev_input)
    /\ IsNum(signalProcessor.lowFilter.prev_output)

\* C20: with the lowpass cutoff at 0 every calculate_lpf call on a non-zero
\* memory gives an output smaller in magnitude than the one before.
C20_LowpassShrinksAtZeroCutoff ==
    [][(LowpassStepAtZeroCutoff /\ signalProcessor.lowFilter.prev_output # 0) =>
          Abs(signalProcessor'.lowFilter.prev_output)
              < Abs(signalProcessor.lowFilter.prev_output)]_vars

\* C20, amended: with the lowpass cutoff at 0 every calculate_lpf call gives
\* the output of the call before, whatever the input: the output holds the
\* value in the filter's memory.
C20_LowpassHoldsAtZeroCutoff ==
    [][LowpassStepAtZeroCutoff =>
          signalProcessor'.lowFilter.prev_output
              = signalProcessor.lowFilter.prev_output]_vars

\* A sample went through the lowpass at cutoff 0 while its memory held a
\* non-zero output, and the output is still that value.
C20_Witness ==
    /\ pc = "takeInSample"
    /\ signalProcessor.lowFilter.cutoff_frequency = 0
    /\ signalProcessor.lowFilter.k = Rat(0, 1)
    /\ signalProcessor.lowFilter.alpha = Rat(1, 1)
    /\ signalProcessor.lowFilter.prev_input = -2 * SCALE
    /\ signalProcessor.lowFilter.prev_output = 2 * SCALE

\* calculate_hpf runs in this step on a highpass with cutoff 0 (k = 0,
\* alpha = 1) whose memory is finite, on a finite input.
HighpassStepAtZeroCutoff ==
    /\ pc' = "takeInSample"
    /\ calls' = calls + 1
    /\ signalProcessor.highFilter.k = Rat(0, 1)
    /\ signalProcessor.highFilter.alpha = Rat(1, 1)
    /\ IsNum(signalProcessor.highFilter.prev_input)
    /\ IsNum(signalProcessor.highFilter.prev_output)
    /\ IsNum(signalProcessor'.highFilter.prev_input)
    /\ IsNum(signalProcessor'.highFilter.prev_output)

\* C21: with the highpass cutoff at 0 every calculate_hpf output equals the
\* input of the same call, whatever memory earlier samples left.
C21_HighpassUnityAtZeroCutoff ==
    [][HighpassStepAtZeroCutoff =>
          signalProcessor'.highFilter.prev_output
              = signalProcessor'.highFilter.prev_input]_vars

\* C21, amended: with the highpass cutoff at 0 every calculate_hpf output is
\* the input of the same call plus prev_output - prev_input of the memory:
\* the offset between output and input stays what it was.
C21_HighpassKeepsOffsetAtZeroCutoff ==
    [][HighpassStepAtZeroCutoff =>
          signalProcessor'.highFilter.prev_output
                  - signalProcessor'.highFilter.prev_input
              = signalProcessor.highFilter.prev_output
                  - signalProcessor.highFilter.prev_input]_vars

\* Two samples went through the highpass, the second at cutoff 0 with a
\* memory whose output differed from its input; output and input still differ.
C21_Witness ==
    /\ pc = "takeInSample"
    /\ calls = 4
    /\ signalProcessor.highFilter.cutoff_frequency = 0
    /\ signalProcessor.highFilter.k = Rat(0, 1)
    /\ signalProcessor.highFilter.alpha = Rat(1, 1)
    /\ IsNum(signalProcessor.highFilter.prev_input)
    /\ IsNum(signalProcessor.highFilter.prev_output)
    /\ signalProcessor.highFilter.prev_output
           # signalProcessor.highFilter.prev_input

\* The calls so far are one set_cutoff_frequency on the fresh filter (zero
\* memory) giving a coefficient k > 0, then calculate_lpf(1.0) only.
StepResponseRunning ==
    /\ last_call = "set_cutoff_frequency"
    /\ Len(level_log) = calls - 1
    /\ \A i \in 1..Len(level_log) : level_log[i].sample = SCALE
    /\ RatFinite(signalProcessor.lowFilter.k)
    /\ signalProcessor.lowFilter.k.n > 0

\* The outputs never fall, never exceed 1.0, and from the fifth on are within
\* one fixed-point unit of 1.0.
StepResponseRisesToOne ==
    /\ \A i \in 1..Len(level_log) :
          IsNum(level_log[i].level) /\ level_log[i].level <= SCALE
    /\ \A i \in 2..Len(level_log) : level_log[i].level >= level_log[i - 1].level
    /\ \A i \in 5..Len(level_log) : level_log[i].level >= SCALE - 1

\* C22: the lowpass step response rises monotonically to 1.0 without
\* exceeding it, for every k > 0.
C22_StepResponseMonotone == StepResponseRunning => StepResponseRisesToOne

\* C22, amended: the same for 0 < k <= 1, that is 0 < Fc <= Fs/4.
C22_StepResponseMonotoneUpToQuarterRate ==
    (/\ StepResponseRunning
     /\ signalProcessor.lowFilter.k.n <= signalProcessor.lowFilter.k.d)
    => StepResponseRisesToOne

\* Six samples 1.0 went through the lowpass at Fc = Fs/10 from zero memory.
C22_Witness ==
    /\ StepResponseRunning
    /\ arg = 4410
    /\ Len(level_log) = 6
    /\ level_log[1].level < level_log[3].level
    /\ level_log[6].level >= SCALE - 1

\* C23: the cutoffs updateMathParams has handed to the two filters are
\* strictly below half of the sampling frequency of the latest prepareToPlay.
C23_CutoffsBelowNyquist ==
    (prepared /\ pc = "loop") =>
        /\ 2 * signalProcessor.lowFilter.cutoff_frequency < fs_now
        /\ 2 * signalProcessor.highFilter.cutoff_frequency < fs_now

\* C24: right after setSamplingFrequency(fs) that follows
\* setRecoveryTimeValue(r), decay is 2^(-1/(max(r, 0.001) * fs)) for that r
\* and the new fs.
C24_DecayFollowsSamplingFrequency ==
    [][(pc = "setRecoveryTimeValue" /\ pc' = "setSamplingFrequency") =>
          signalProcessor'.decay
              = RatDiv(Rat(1000000, MaxOf(arg, 1000)), Rat(arg', 1))]_vars

\* The mapper that clamps the scaled level to the sorted bounds and truncates
\* afterwards.  A scaled level that is no finite number of int's range
\* clamps to one of the two bounds.
ClampThenTruncate(sp) ==
    LET scaled == ScaledEnvelopePosition(sp)
        low    == MinOf(sp.min_val, sp.max_val)
        high   == MaxOf(sp.min_val, sp.max_val)
    IN  IF IsNum(scaled) THEN {ToInt(MaxOf(MinOf(scaled, high), low))}
        ELSE {ToInt(low), ToInt(high)}

\* C25: getEnvelopePosition returns what clamping the scaled level to the
\* sorted bounds and truncating afterwards gives, for every level and bounds.
C25_TruncateClampCommute ==
    pc = "getEnvelopePosition" => midi_value \in ClampThenTruncate(signalProcessor)

\* C26: a sample step of processBlock averages the channels, multiplies by
\* the gain, runs the lowpass on that, the highpass on the lowpass output and
\* the envelope update on the highpass output, each filter taking one sample,
\* then ticks the counters; the value of an emission is the mapping of the
\* level this step left.
C26_PerSampleOrder ==
    [][taken' = taken + 1 =>
          /\ \E frame \in Frames :
               LET x    == FMul(ChannelAverage(frame), signalProcessor.gain)
                   low  == lpf_output(signalProcessor.lowFilter, x)
                   high == hpf_output(signalProcessor.highFilter, low)
               IN  /\ signalProcessor'.lowFilter.prev_input = x
                   /\ signalProcessor'.lowFilter.prev_output = low
                   /\ signalProcessor'.highFilter.prev_input = low
                   /\ signalProcessor'.highFilter.prev_output = high
                   /\ \E gt \in BOOLEAN :
                        signalProcessor'.current_envelope_position
                          = updateEnvelopePosition(signalProcessor, high, gt)
                                .current_envelope_position
          /\ elapsed_since_drawer' = elapsed_since_drawer + 1
          /\ emit_log' # emit_log =>
                \E ub \in UbChoices(signalProcessor') :
                    midi_value' = getEnvelopePosition(signalProcessor', ub)]_vars

\* A message was emitted on a sample that raised the level, after the
\* lowpass had changed the scaled sample; its value maps the raised level.
C26_Witness ==
    /\ pc = "loop" /\ taken > 0
    /\ elapsed_since_midi = 0 /\ emit_log # <<>>
    /\ IsNum(level_now) /\ level_now > 0
    /\ signalProcessor.lowFilter.prev_output # signalProcessor.lowFilter.prev_input
    /\ signalProcessor.highFilter.prev_input = signalProcessor.lowFilter.prev_output
    /\ level_now = Abs(signalProcessor.highFilter.prev_output)
    /\ midi_value = getEnvelopePosition(signalProcessor, 0)
    /\ midi_value > 0

\* The decay and the two filters' coefficients and frequencies in use.
CoefficientsInUse(sp) ==
    <<sp.decay,
      sp.lowFilter.cutoff_frequency, sp.lowFilter.sampling_frequency,
      sp.lowFilter.theta_c, sp.lowFilter.k, sp.lowFilter.alpha,
      sp.highFilter.cutoff_frequency, sp.highFilter.sampling_frequency,
      sp.highFilter.theta_c, sp.highFilter.k, sp.highFilter.alpha>>

\* The same as derived from the parameters up and the sampling frequency freq.
CoefficientsFrom(up, freq) ==
    LET low  == calc_coeff([FilterDefault EXCEPT !.cutoff_frequency = up.low_pass,
                                                 !.sampling_frequency = freq])
        high == calc_coeff([FilterDefault EXCEPT !.cutoff_frequency = up.hi_pass,
                                                 !.sampling_frequency = freq])
    IN  <<RatDiv(Rat(1000000, MaxOf(up.recovery, 1000)), Rat(freq, 1)),
          low.cutoff_frequency, low.sampling_frequency,
          low.theta_c, low.k, low.alpha,
          high.cutoff_frequency, high.sampling_frequency,
          high.theta_c, high.k, high.alpha>>

\* C27: when processBlock starts, the decay and both filters' coefficients
\* become those derived from the parameters as they are then and from the
\* sampling frequency of the latest prepareToPlay, and they and the sampling
\* frequency stay so for every sample of the block, whatever prepareToPlay
\* calls and parameter changes came before or come during the block.
C27_CoefficientsFromLatestPrepare ==
    [][/\ (pc = "idle" /\ pc' = "loop") =>
              CoefficientsInUse(signalProcessor')
                  = CoefficientsFrom(user_param, fs_now)
       /\ pc = "loop" =>
              /\ CoefficientsInUse(signalProcessor')
                     = CoefficientsInUse(signalProcessor)
              /\ fs_now' = fs_now]_vars

\* A sample was processed at 24 Hz, the frequency of the second
\* prepareToPlay, with the decay of a recovery time written before it.
C27_Witness ==
    /\ pc = "loop" /\ taken > 0
    /\ prepares = 2 /\ writes = 1
    /\ fs_now = 24
    /\ user_param.recovery = 100000
    /\ signalProcessor.decay = Rat(5, 12)
    /\ signalProcessor.lowFilter.sampling_frequency = 24
    /\ signalProcessor.lowFilter.prev_input # 0

\* C28: sendCCMessage has run since the output device was last set only if
\* a device exists.
C28_DeviceExistsAtEmission == emit_log # <<>> => output_device

\* C29: after a prepareToPlay that set a period of at least one sample,
\* neither elapsed_since_midi nor elapsed_since_drawer grows past
\* samples_per_midi_message.
C29_CountersBounded ==
    (prepared /\ samples_per_midi_message >= 1) =>
        /\ elapsed_since_midi <= samples_per_midi_message
        /\ elapsed_since_drawer <= samples_per_midi_message

\* The emissions, as pairs of position and value, of the frames processed
\* one after another from the SignalProcessor sp with elapsed_since_midi at
\* elapsed, position counting from pos, with no block boundary in between.
RECURSIVE StreamRun(_, _, _, _, _)
StreamRun(sp, elapsed, per_message, frames, pos) ==
    IF frames = <<>> THEN <<>>
    ELSE LET sp1 == takeInSample(sp, ChannelAverage(Head(frames)), FALSE)
             due == MidiMessageDue(elapsed, per_message)
         IN  (IF due THEN <<(<<pos, getEnvelopePosition(sp1, 0)>>)>> ELSE <<>>)
             \o StreamRun(sp1, IF due THEN 0 ELSE elapsed + 1, per_message,
                          Tail(frames), pos + 1)

\* The emissions since the last prepareToPlay, as pairs of position and value.
EmissionsSincePrepare ==
    [i \in 1..Len(emit_log) |-> <<emit_log[i], value_log[i]>>]

\* No number in the SignalProcessor sp is non-finite, and its decay is at
\* most 1, so that the level stays finite on finite samples.
SignalFinite(sp) ==
    /\ IsNum(sp.current_envelope_position)
    /\ IsNum(sp.lowFilter.prev_output)
    /\ IsNum(sp.highFilter.prev_output)
    /\ IsNum(ScaledEnvelopePosition(sp))
    /\ sp.decay.n >= 0

\* No parameter was written since the last prepareToPlay and every number
\* since then was finite.
StreamSteady ==
    /\ prepared
    /\ stream_origin.writes = writes
    /\ stream_origin.up = user_param
    /\ SignalFinite(updateMathParams(stream_origin.sp, user_param))
    /\ SignalFinite(signalProcessor)

\* C30: with the parameters as they were at the last prepareToPlay, the
\* emissions since then, however the frames were cut into blocks, are those
\* of the same frames processed in one run: same positions, same values.
C30_EmissionsIndependentOfBlocks ==
    StreamSteady =>
        EmissionsSincePrepare
            = StreamRun(updateMathParams(stream_origin.sp, user_param), 0,
                        samples_per_midi_message, frame_log, 1)

\* Three frames were processed after a prepareToPlay with period 2, in at
\* least two blocks, and the second emitted a non-zero value.
C30_Witness ==
    /\ StreamSteady
    /\ samples_per_midi_message = 2
    /\ Len(frame_log) = 3
    /\ emit_log = <<2>>
    /\ value_log[1] > 0
    /\ pc = "idle"

=============================================================================
